---- MODULE Spec2Model ----
(***************************************************************************)
(* Model of the project tracker front end (src/js/app.js).                 *)
(*                                                                         *)
(* The backend is the REST collaborator: a set of projects, each with a    *)
(* status and a completion_progress, and a table of tasks.  The client is  *)
(* single threaded: every async function runs until its next `await        *)
(* fetch(...)`, so one action of the model is one such step: the pending   *)
(* request is served by the backend, its response is delivered, and the    *)
(* continuation runs up to the next fetch.  Responses of different async   *)
(* functions are delivered in any order.                                   *)
(*                                                                         *)
(* completion_progress is kept in hundredths of a percent (5000 is the     *)
(* string "50.00" that toFixed(2) produces).                               *)
(***************************************************************************)
EXTENDS Integers, Sequences, FiniteSets, TLC

\* ---- bounds of the model
MaxProjects == 2
MaxTasks == 3
MaxWeight == 2
MaxMutations == 1
MaxClicks == 3
MaxFailures == 1
MaxLen == 3

Status == {"draft", "in progress", "done"}
NameInputs == {"", "a"}
ProjIds == 1..MaxProjects
TaskIds == 1..MaxTasks
Weights == 1..MaxWeight

\* ---- the aggregation (pure)

RECURSIVE totalWeightOf(_)
totalWeightOf(ts) ==
    IF ts = <<>> THEN 0 ELSE Head(ts).weight + totalWeightOf(Tail(ts))

\* variant: every task that is not a draft counts as completed
RECURSIVE completedWeightMutant(_)
completedWeightMutant(ts) ==
    IF ts = <<>> THEN 0
    ELSE (IF Head(ts).status # "draft" THEN Head(ts).weight ELSE 0)
         + completedWeightMutant(Tail(ts))

RECURSIVE completedWeightOf(_)
completedWeightOf(ts) ==
    IF ts = <<>> THEN 0
    ELSE (IF Head(ts).status = "done" THEN Head(ts).weight ELSE 0)
         + completedWeightOf(Tail(ts))

\* ((c / t) * 100).toFixed(2), in hundredths: the nearest multiple of 0.01,
\* the larger one on a tie
toFixed2(c, t) == (20000 * c + t) \div (2 * t)

\* the value calculateAndUpdateProjectProgress and
\* calculateAndLogProjectProgress PUT for a non-empty task list
completionProgress(ts) == toFixed2(completedWeightOf(ts), totalWeightOf(ts))

\* the value calculateProjectProgress returns for the progress bar
calculateProjectProgress(ts) ==
    IF Len(ts) = 0 THEN 0 ELSE toFixed2(completedWeightOf(ts), totalWeightOf(ts))

\* variant: "any in progress" and "any done" are tested instead of "every done"
computeStatusMutant(ts) ==
    IF \E i \in 1..Len(ts) : ts[i].status = "in progress" THEN "in progress"
    ELSE IF \E i \in 1..Len(ts) : ts[i].status = "done" THEN "done"
    ELSE "draft"

\* the projectStatus updateProjectStatus computes from the fetched tasks
computeStatus(ts) ==
    IF \A i \in 1..Len(ts) : ts[i].status = "done" THEN "done"
    ELSE IF \E i \in 1..Len(ts) : ts[i].status = "in progress" THEN "in progress"
    ELSE "draft"

VARIABLES
    projects,          \* backend: ids of the existing projects
    pstatus,           \* backend: project id -> status
    pprog,             \* backend: project id -> completion_progress (hundredths)
    tasks,             \* backend: task id -> [proj, status, weight]; proj = 0: no such task
    nextTask,          \* backend: next task id to assign
    nextProject,       \* backend: next project id to assign
    currentProjectId,  \* client: 0 is null
    currentTaskId,     \* client: 0 is null
    modal,             \* client: the modal on screen
    formTask,          \* client: id of the task whose data fills the edit-task form
    formProject,       \* client: id of the project whose name fills the edit-project form
    pendTask,          \* client: task ids whose GET (openEditTaskModal) is in flight
    pendProject,       \* client: project ids whose GET (openEditProjectModal) is in flight
    rendered,          \* client: projectList.innerHTML as [msg, cards]
    alert,             \* client: text of the last alert() shown
    proc,              \* client: the running async functions
    nmut,              \* number of mutation requests sent so far
    clicks,            \* number of buttons the user has clicked so far
    failures,          \* number of requests that failed in transit or came back non-2xx
    agg                \* the aggregation applied to one fetched task list

vars == <<projects, pstatus, pprog, tasks, nextTask, nextProject, currentProjectId,
          currentTaskId, modal, formTask, formProject, pendTask, pendProject,
          rendered, alert, proc, nmut, clicks, failures, agg>>

backend == <<projects, pstatus, pprog, tasks, nextTask, nextProject>>
forms == <<formTask, formProject, pendTask, pendProject>>
current == <<currentProjectId, currentTaskId>>

\* ---- the backend's answers

NoTask == [proj |-> 0, status |-> "draft", weight |-> 1]

\* GET /api/tasks/project/{p}: the tasks of p in id order
TasksOf(p) == SelectSeq([i \in TaskIds |-> tasks[i]], LAMBDA t : t.proj = p)

\* GET /api/projects: the projects in id order
ProjectList ==
    SelectSeq([p \in ProjIds |-> [id |-> p, status |-> pstatus[p]]],
              LAMBDA r : r.id \in projects)

\* ---- the async functions in flight

\* loadProjects number k is the one started by mutation k (0: at page load)
Load(k) == 2 * k
Handler(k) == 2 * k - 1
ProcIds == 0..(2 * MaxMutations)
Mutations == 1..MaxMutations
IsLoad(i) == i % 2 = 0

NoOp == [type |-> "none", id |-> 0, name |-> "", status |-> "draft", weight |-> 1, src |-> 0]

IdleProc ==
    [pc |-> "idle", pid |-> 0, progress |-> 0, status |-> "draft", ntasks |-> 0,
     plist |-> <<>>, disp |-> 0, log |-> <<>>, op |-> NoOp, res |-> "none",
     owner |-> 0, listOk |-> "none", listed |-> {},
     refreshed |-> [p \in ProjIds |-> 0]]

\* what is left of a finished async function: its locals are gone
Finish(r) ==
    [r EXCEPT !.pc = "done", !.pid = 0, !.progress = 0, !.status = "draft",
              !.ntasks = 0, !.plist = <<>>, !.disp = 0, !.log = <<>>,
              !.op.name = "", !.op.status = "draft", !.op.weight = 1]

IsPut(pc) == pc \in {"r_putProgress", "r_statusPut", "h_statusPut"}
PutKind(pc) == IF pc = "r_putProgress" THEN "progress" ELSE "status"

\* the function goes on to its next fetch; a PUT being issued is logged
Enter(r, pc) ==
    [r EXCEPT !.pc = pc,
              !.log = IF IsPut(pc) THEN Append(@, <<PutKind(pc), "issue">>) ELSE @]

\* the response of the pending PUT is logged
Resp(r) == [r EXCEPT !.log = Append(@, <<PutKind(r.pc), "resp">>)]

\* calculateAndUpdateProjectProgress / calculateAndLogProjectProgress is called
StartRefresh(r, p) ==
    [Enter(r, "r_get") EXCEPT !.pid = p, !.refreshed[p] = @ + 1]

\* variant: updateProjectStatus is awaited before updateProjectProgress
NextPcStatusFirst(pc) ==
    CASE pc = "r_get" -> "r_statusGet"
      [] pc = "r_statusGet" -> "r_statusPut"
      [] pc = "r_statusPut" -> "r_putProgress"
      [] pc = "r_putProgress" -> "return"
      [] pc = "h_statusGet" -> "h_statusPut"
      [] OTHER -> "return"

\* the order of the awaits in the refresh and in updateProjectStatus
NextPc(pc) ==
    CASE pc = "r_get" -> "r_putProgress"
      [] pc = "r_putProgress" -> "r_statusGet"
      [] pc = "r_statusGet" -> "r_statusPut"
      [] pc = "r_statusPut" -> "return"
      [] pc = "h_statusGet" -> "h_statusPut"
      [] OTHER -> "return"

\* the refresh (or the handler's own updateProjectStatus) has returned to its caller
Return(i, r) ==
    IF IsLoad(i)
    THEN IF Len(r.plist) > 1
         THEN [r EXCEPT !.pc = "l_calc", !.plist = Tail(@), !.pid = r.plist[2].id,
                        !.log = <<>>, !.progress = 0, !.status = "draft",
                        !.ntasks = 0, !.disp = 0]
         ELSE Finish(r)
    ELSE IF r.pc \in {"r_get", "r_putProgress", "r_statusGet", "r_statusPut"}
         THEN [r EXCEPT !.pc = "h_statusGet", !.pid = currentProjectId, !.log = <<>>,
                        !.progress = 0, !.status = "draft", !.ntasks = 0]
         ELSE Finish(r)

Goto(i, r, pc) == IF pc = "return" THEN Return(i, r) ELSE Enter(r, pc)

MayFail == failures < MaxFailures
Failed == IF failures < MaxFailures THEN failures + 1 ELSE failures

AggOff == [pc |-> "off", tasks |-> <<>>, shown |-> 0, put |-> -1, status |-> "draft"]

\* ---- the state when DOMContentLoaded fires: the backend holds one or two
\* projects and one or two tasks, in sync with their tasks; loadProjects() is called

InitBackend ==
    \E np \in {1}, nt \in 1..2 :
      \E f \in [1..nt -> [proj : 1..np, status : {"draft"}, weight : {1}]] :
        /\ projects = 1..np
        /\ nextProject = np + 1
        /\ nextTask = nt + 1
        /\ tasks = [i \in TaskIds |-> IF i <= nt THEN f[i] ELSE NoTask]
        /\ LET of(p) == SelectSeq(f, LAMBDA t : t.proj = p) IN
           /\ pstatus = [p \in ProjIds |->
                           IF of(p) = <<>> THEN "draft" ELSE computeStatus(of(p))]
           /\ pprog = [p \in ProjIds |->
                           IF of(p) = <<>> THEN 0 ELSE completionProgress(of(p))]

Init ==
    /\ InitBackend
    /\ currentProjectId = 0
    /\ currentTaskId = 0
    /\ modal = {}
    /\ formTask = 0
    /\ formProject = 0
    /\ pendTask = {}
    /\ pendProject = {}
    /\ rendered = [msg |-> "", cards |-> {}]
    /\ alert = ""
    /\ proc = [i \in ProcIds |-> IF i = Load(0) THEN Enter(IdleProc, "l_projects")
                                 ELSE IdleProc]
    /\ nmut = 0
    /\ clicks = 0
    /\ failures = 0
    /\ agg = AggOff

\* ---- what the page offers the user

CardIds == {c.id : c \in rendered.cards}
RowIds == UNION {c.rows : c \in rendered.cards}
PendingCreates(type) ==
    Cardinality({k \in Mutations : proc[Handler(k)].pc = "mutate"
                                   /\ proc[Handler(k)].op.type = type})

\* the user clicks a button of the page or of a modal
Click ==
    /\ clicks < MaxClicks
    /\ clicks' = clicks + 1

\* a click on a submit or delete button sends the mutation request
Send(op) ==
    /\ nmut < MaxMutations
    /\ nmut' = nmut + 1
    /\ proc' = [proc EXCEPT ![Handler(nmut + 1)] = [Enter(@, "mutate") EXCEPT !.op = op]]

\* variant: loadProjects() is called whatever the response
ReloadAlways(ok) == TRUE

\* `if (response.ok) { loadProjects(); ...` in every handler
ReloadOnResponse(ok) == ok

\* the handler of mutation k goes on as h after the response
Respond(k, h, ok) ==
    proc' = [proc EXCEPT ![Handler(k)] = h,
                         ![Load(k)] = IF ReloadOnResponse(ok)
                                      THEN Enter(@, "l_projects") ELSE @]

\* the non-2xx / network-error branch of a handler
Reject(k, msg) ==
    /\ Respond(k, Finish([proc[Handler(k)] EXCEPT !.res = "fail"]), FALSE)
    /\ alert' = msg
    /\ failures' = Failed
    /\ UNCHANGED <<backend, current, modal, forms, rendered, nmut, clicks, agg>>

\* after a task was created or edited: modal.hide(), then
\* await calculateAndUpdateProjectProgress(currentProjectId)
TaskHandlerGoesOn(h) ==
    IF currentProjectId = 0
    THEN [h EXCEPT !.pc = "h_statusGet", !.pid = 0]
    ELSE StartRefresh(h, currentProjectId)

\* ---- opening the modals

OpenAddTaskModal(p) ==
    /\ Click
    /\ modal = {}
    /\ p \in CardIds
    /\ currentProjectId' = p
    /\ modal' = {"addTask"}
    /\ UNCHANGED <<backend, currentTaskId, forms, rendered, alert, proc, nmut, failures, agg>>

OpenEditTaskModal(t) ==
    /\ Click
    /\ modal = {}
    /\ t \in RowIds
    /\ currentTaskId' = t
    /\ pendTask' = pendTask \cup {t}
    /\ UNCHANGED <<backend, currentProjectId, modal, formTask, formProject, pendProject,
                   rendered, alert, proc, nmut, failures, agg>>

EditTaskModalResponse(t) ==
    /\ t \in pendTask
    /\ pendTask' = pendTask \ {t}
    /\ \/ /\ tasks[t].proj # 0
          /\ formTask' = t
          /\ modal' = modal \cup {"editTask"}
          /\ UNCHANGED failures
       \/ /\ tasks[t].proj = 0 \/ MayFail
          /\ failures' = Failed
          /\ UNCHANGED <<formTask, modal>>
    /\ UNCHANGED <<backend, current, formProject, pendProject, rendered, alert, proc,
                   nmut, clicks, agg>>

OpenEditProjectModal(p) ==
    /\ Click
    /\ modal = {}
    /\ p \in CardIds
    /\ currentProjectId' = p
    /\ pendProject' = pendProject \cup {p}
    /\ UNCHANGED <<backend, currentTaskId, modal, formTask, formProject, pendTask,
                   rendered, alert, proc, nmut, failures, agg>>

EditProjectModalResponse(p) ==
    /\ p \in pendProject
    /\ pendProject' = pendProject \ {p}
    /\ \/ /\ p \in projects
          /\ formProject' = p
          /\ modal' = modal \cup {"editProject"}
          /\ UNCHANGED failures
       \/ /\ p \notin projects \/ MayFail
          /\ failures' = Failed
          /\ UNCHANGED <<formProject, modal>>
    /\ UNCHANGED <<backend, current, formTask, pendTask, rendered, alert, proc, nmut, clicks, agg>>

\* the page's "create project" button shows createProjectModal
OpenCreateProjectModal ==
    /\ Click
    /\ modal = {}
    /\ modal' = {"createProject"}
    /\ UNCHANGED <<backend, current, forms, rendered, alert, proc, nmut, failures, agg>>

\* ---- the click handlers, up to their fetch

SubmitTask(name, status, weight) ==
    /\ Click
    /\ "addTask" \in modal
    /\ nextTask + PendingCreates("createTask") <= MaxTasks
    /\ Send([NoOp EXCEPT !.type = "createTask", !.id = currentProjectId, !.name = name,
                         !.status = status, !.weight = weight])
    /\ UNCHANGED <<backend, current, modal, forms, rendered, alert, failures, agg>>

SubmitEditTask(name, status, weight) ==
    /\ Click
    /\ "editTask" \in modal
    /\ Send([NoOp EXCEPT !.type = "editTask", !.id = currentTaskId, !.name = name,
                         !.status = status, !.weight = weight, !.src = formTask])
    /\ UNCHANGED <<backend, current, modal, forms, rendered, alert, failures, agg>>

SubmitEditProject(name) ==
    /\ Click
    /\ "editProject" \in modal
    /\ \/ /\ name = ""
          /\ alert' = "Please fill in all fields."
          /\ UNCHANGED <<proc, nmut>>
       \/ /\ name # ""
          /\ Send([NoOp EXCEPT !.type = "editProject", !.id = currentProjectId,
                               !.name = name, !.src = formProject])
          /\ UNCHANGED alert
    /\ UNCHANGED <<backend, current, modal, forms, rendered, failures, agg>>

SubmitProject(name) ==
    /\ Click
    /\ "createProject" \in modal
    /\ \/ /\ name = ""
          /\ alert' = "Please fill in all fields."
          /\ UNCHANGED <<proc, nmut>>
       \/ /\ name # ""
          /\ nextProject + PendingCreates("createProject") <= MaxProjects
          /\ Send([NoOp EXCEPT !.type = "createProject", !.name = name])
          /\ UNCHANGED alert
    /\ UNCHANGED <<backend, current, modal, forms, rendered, failures, agg>>

\* the user confirms the confirm() prompt
DeleteTask(t) ==
    /\ Click
    /\ modal = {}
    /\ t \in RowIds
    /\ Send([NoOp EXCEPT !.type = "deleteTask", !.id = t])
    /\ UNCHANGED <<backend, current, modal, forms, rendered, alert, failures, agg>>

DeleteProject(p) ==
    /\ Click
    /\ modal = {}
    /\ p \in CardIds
    /\ Send([NoOp EXCEPT !.type = "deleteProject", !.id = p])
    /\ UNCHANGED <<backend, current, modal, forms, rendered, alert, failures, agg>>

\* ---- the click handlers, from the response of their fetch

Awaiting(k, type) ==
    /\ proc[Handler(k)].pc = "mutate"
    /\ proc[Handler(k)].op.type = type

SubmitTaskResponse(k) ==
    LET h == proc[Handler(k)] IN
    /\ Awaiting(k, "createTask")
    /\ \/ /\ h.op.id \in projects
          /\ tasks' = [tasks EXCEPT ![nextTask] =
                          [proj |-> h.op.id, status |-> h.op.status, weight |-> h.op.weight]]
          /\ nextTask' = nextTask + 1
          /\ modal' = modal \ {"addTask"}
          /\ Respond(k, TaskHandlerGoesOn([h EXCEPT !.res = "ok", !.owner = h.op.id]), TRUE)
          /\ UNCHANGED <<projects, pstatus, pprog, nextProject, current, forms, rendered,
                         alert, nmut, clicks, failures, agg>>
       \/ /\ h.op.id \notin projects \/ MayFail
          /\ Reject(k, "Error adding task.")

SubmitEditTaskResponse(k) ==
    LET h == proc[Handler(k)] IN
    /\ Awaiting(k, "editTask")
    /\ \/ /\ tasks[h.op.id].proj # 0
          /\ tasks' = [tasks EXCEPT ![h.op.id].status = h.op.status,
                                    ![h.op.id].weight = h.op.weight]
          /\ modal' = modal \ {"editTask"}
          /\ Respond(k, TaskHandlerGoesOn([h EXCEPT !.res = "ok",
                                                    !.owner = tasks[h.op.id].proj]), TRUE)
          /\ UNCHANGED <<projects, pstatus, pprog, nextTask, nextProject, current, forms,
                         rendered, alert, nmut, clicks, failures, agg>>
       \/ /\ tasks[h.op.id].proj = 0 \/ MayFail
          /\ Reject(k, "Error editing task.")

DeleteTaskResponse(k) ==
    LET h == proc[Handler(k)] IN
    /\ Awaiting(k, "deleteTask")
    /\ \/ /\ tasks[h.op.id].proj # 0
          /\ tasks' = [tasks EXCEPT ![h.op.id] = NoTask]
          /\ Respond(k, Finish([h EXCEPT !.res = "ok", !.owner = tasks[h.op.id].proj]), TRUE)
          /\ UNCHANGED <<projects, pstatus, pprog, nextTask, nextProject, current, modal,
                         forms, rendered, alert, nmut, clicks, failures, agg>>
       \/ /\ tasks[h.op.id].proj = 0 \/ MayFail
          /\ Reject(k, "Error deleting task.")

SubmitProjectResponse(k) ==
    LET h == proc[Handler(k)] IN
    /\ Awaiting(k, "createProject")
    /\ \/ /\ projects' = projects \cup {nextProject}
          /\ pstatus' = [pstatus EXCEPT ![nextProject] = "draft"]
          /\ pprog' = [pprog EXCEPT ![nextProject] = 0]
          /\ nextProject' = nextProject + 1
          /\ modal' = modal \ {"createProject"}
          /\ Respond(k, Finish([h EXCEPT !.res = "ok"]), TRUE)
          /\ UNCHANGED <<tasks, nextTask, current, forms, rendered, alert, nmut, clicks,
                         failures, agg>>
       \/ /\ MayFail
          /\ Reject(k, "Error creating project.")

SubmitEditProjectResponse(k) ==
    LET h == proc[Handler(k)] IN
    /\ Awaiting(k, "editProject")
    /\ \/ /\ h.op.id \in projects
          /\ modal' = modal \ {"editProject"}
          /\ Respond(k, Finish([h EXCEPT !.res = "ok"]), TRUE)
          /\ UNCHANGED <<backend, current, forms, rendered, alert, nmut, clicks, failures, agg>>
       \/ /\ h.op.id \notin projects \/ MayFail
          /\ Reject(k, "Error editing project.")

DeleteProjectResponse(k) ==
    LET h == proc[Handler(k)] IN
    /\ Awaiting(k, "deleteProject")
    /\ \/ /\ h.op.id \in projects
          /\ projects' = projects \ {h.op.id}
          /\ pstatus' = [pstatus EXCEPT ![h.op.id] = "draft"]
          /\ pprog' = [pprog EXCEPT ![h.op.id] = 0]
          /\ tasks' = [t \in TaskIds |-> IF tasks[t].proj = h.op.id THEN NoTask ELSE tasks[t]]
          /\ Respond(k, Finish([h EXCEPT !.res = "ok"]), TRUE)
          /\ UNCHANGED <<nextTask, nextProject, current, modal, forms, rendered, alert,
                         nmut, clicks, failures, agg>>
       \/ /\ h.op.id \notin projects \/ MayFail
          /\ Reject(k, "Error deleting project.")

\* ---- loadProjects

LoadProjectsResponse(k) ==
    LET r == proc[Load(k)] IN
    /\ r.pc = "l_projects"
    /\ \/ /\ ProjectList # <<>>
          /\ rendered' = [msg |-> "", cards |-> {}]
          /\ proc' = [proc EXCEPT ![Load(k)] =
                        [r EXCEPT !.pc = "l_calc", !.plist = ProjectList,
                                  !.pid = ProjectList[1].id, !.listOk = "ok",
                                  !.listed = projects]]
          /\ UNCHANGED failures
       \/ /\ ProjectList = <<>>
          /\ rendered' = [msg |-> "Tidak ada project ditemukan.", cards |-> {}]
          /\ proc' = [proc EXCEPT ![Load(k)] = Finish([r EXCEPT !.listOk = "ok"])]
          /\ UNCHANGED failures
       \/ /\ MayFail
          /\ rendered' = [msg |-> "Terjadi kesalahan saat memuat project.", cards |-> {}]
          /\ proc' = [proc EXCEPT ![Load(k)] = Finish([r EXCEPT !.listOk = "fail"])]
          /\ failures' = Failed
    /\ UNCHANGED <<backend, current, modal, forms, alert, nmut, clicks, agg>>

\* await calculateProjectProgress(project.id)
LoadCalculateProgress(k) ==
    LET r == proc[Load(k)] IN
    /\ r.pc = "l_calc"
    /\ \/ /\ proc' = [proc EXCEPT ![Load(k)] =
                        [r EXCEPT !.pc = "l_tasks",
                                  !.disp = calculateProjectProgress(TasksOf(r.pid))]]
          /\ UNCHANGED failures
       \/ /\ MayFail
          /\ proc' = [proc EXCEPT ![Load(k)] = [r EXCEPT !.pc = "l_tasks", !.disp = 0]]
          /\ failures' = Failed
    /\ UNCHANGED <<backend, current, modal, forms, rendered, alert, nmut, clicks, agg>>

Card(r, rows) ==
    [id |-> r.pid, status |-> r.plist[1].status, progress |-> r.disp, rows |-> rows]

\* variant: the loop goes to the next project without the refresh
LoadAfterCardSkip(k, r) == Return(Load(k), r)

\* await calculateAndLogProjectProgress(project.id), once the card is appended
LoadAfterCard(k, r) == StartRefresh(r, r.pid)

\* await loadTasks(project.id); projectList.innerHTML += projectCard
LoadTasksResponse(k) ==
    LET r == proc[Load(k)] IN
    /\ r.pc = "l_tasks"
    /\ \/ /\ rendered' = [rendered EXCEPT !.cards =
                            @ \cup {Card(r, {t \in TaskIds : tasks[t].proj = r.pid})}]
          /\ UNCHANGED failures
       \/ /\ MayFail
          /\ rendered' = [rendered EXCEPT !.cards = @ \cup {Card(r, {})}]
          /\ failures' = Failed
    /\ proc' = [proc EXCEPT ![Load(k)] = LoadAfterCard(k, r)]
    /\ UNCHANGED <<backend, current, modal, forms, alert, nmut, clicks, agg>>

\* ---- the refresh: calculateAndUpdateProjectProgress (a task handler's) and
\* calculateAndLogProjectProgress (loadProjects'), which have the same body

\* the tasks are fetched; an empty list ends the refresh, and so does a failure
RefreshFetchTasks(i) ==
    LET r == proc[i] IN
    /\ r.pc = "r_get"
    /\ \/ /\ TasksOf(r.pid) # <<>>
          /\ proc' = [proc EXCEPT ![i] =
                        Goto(i, [r EXCEPT !.ntasks = Len(TasksOf(r.pid)),
                                          !.progress = completionProgress(TasksOf(r.pid))],
                             NextPc(r.pc))]
          /\ UNCHANGED failures
       \/ /\ TasksOf(r.pid) = <<>>
          /\ proc' = [proc EXCEPT ![i] = Return(i, r)]
          /\ UNCHANGED failures
       \/ /\ MayFail
          /\ proc' = [proc EXCEPT ![i] = Return(i, r)]
          /\ failures' = Failed
    /\ UNCHANGED <<backend, current, modal, forms, rendered, alert, nmut, clicks, agg>>

\* updateProjectProgress: PUT {completion_progress}; a failure is only logged
UpdateProjectProgress(i) ==
    LET r == proc[i] IN
    /\ r.pc = "r_putProgress"
    /\ \/ /\ r.pid \in projects
          /\ pprog' = [pprog EXCEPT ![r.pid] = r.progress]
          /\ UNCHANGED failures
       \/ /\ r.pid \notin projects \/ MayFail
          /\ failures' = Failed
          /\ UNCHANGED pprog
    /\ proc' = [proc EXCEPT ![i] = Goto(i, Resp(r), NextPc(r.pc))]
    /\ UNCHANGED <<projects, pstatus, tasks, nextTask, nextProject, current, modal, forms,
                   rendered, alert, nmut, clicks, agg>>

\* updateProjectStatus, its GET: the status is computed from the tasks fetched
UpdateProjectStatusFetch(i) ==
    LET r == proc[i] IN
    /\ r.pc \in {"r_statusGet", "h_statusGet"}
    /\ \/ /\ r.pid # 0
          /\ proc' = [proc EXCEPT ![i] =
                        Goto(i, [r EXCEPT !.ntasks = Len(TasksOf(r.pid)),
                                          !.status = computeStatus(TasksOf(r.pid))],
                             NextPc(r.pc))]
          /\ UNCHANGED failures
       \/ /\ r.pid = 0 \/ MayFail
          /\ proc' = [proc EXCEPT ![i] = Goto(i, r, NextPc(NextPc(r.pc)))]
          /\ failures' = Failed
    /\ UNCHANGED <<backend, current, modal, forms, rendered, alert, nmut, clicks, agg>>

\* updateProjectStatus, its PUT {status}; a failure is only logged
UpdateProjectStatusPut(i) ==
    LET r == proc[i] IN
    /\ r.pc \in {"r_statusPut", "h_statusPut"}
    /\ \/ /\ r.pid \in projects
          /\ pstatus' = [pstatus EXCEPT ![r.pid] = r.status]
          /\ UNCHANGED failures
       \/ /\ r.pid \notin projects \/ MayFail
          /\ failures' = Failed
          /\ UNCHANGED pstatus
    /\ proc' = [proc EXCEPT ![i] = Goto(i, Resp(r), NextPc(r.pc))]
    /\ UNCHANGED <<projects, pprog, tasks, nextTask, nextProject, current, modal, forms,
                   rendered, alert, nmut, clicks, agg>>

Next ==
    \/ \E p \in ProjIds : OpenAddTaskModal(p)
    \/ \E t \in TaskIds : OpenEditTaskModal(t)
    \/ \E t \in TaskIds : EditTaskModalResponse(t)
    \/ \E p \in ProjIds : OpenEditProjectModal(p)
    \/ \E p \in ProjIds : EditProjectModalResponse(p)
    \/ OpenCreateProjectModal
    \/ \E n \in NameInputs, s \in Status, w \in Weights : SubmitTask(n, s, w)
    \/ \E n \in NameInputs, s \in Status, w \in Weights : SubmitEditTask(n, s, w)
    \/ \E n \in NameInputs : SubmitEditProject(n)
    \/ \E n \in NameInputs : SubmitProject(n)
    \/ \E t \in TaskIds : DeleteTask(t)
    \/ \E p \in ProjIds : DeleteProject(p)
    \/ \E k \in Mutations : SubmitTaskResponse(k)
    \/ \E k \in Mutations : SubmitEditTaskResponse(k)
    \/ \E k \in Mutations : DeleteTaskResponse(k)
    \/ \E k \in Mutations : SubmitProjectResponse(k)
    \/ \E k \in Mutations : SubmitEditProjectResponse(k)
    \/ \E k \in Mutations : DeleteProjectResponse(k)
    \/ \E k \in 0..MaxMutations : LoadProjectsResponse(k)
    \/ \E k \in 0..MaxMutations : LoadCalculateProgress(k)
    \/ \E k \in 0..MaxMutations : LoadTasksResponse(k)
    \/ \E i \in ProcIds : RefreshFetchTasks(i)
    \/ \E i \in ProcIds : UpdateProjectProgress(i)
    \/ \E i \in ProcIds : UpdateProjectStatusFetch(i)
    \/ \E i \in ProcIds : UpdateProjectStatusPut(i)

Spec == Init /\ [][Next]_vars

\* ---- the aggregation on its own: one task list as the backend returns it,
\* then the three places that compute from it

TaskLists == UNION {[1..n -> [status : Status, weight : Weights]] : n \in 0..MaxLen}

InitAgg ==
    /\ projects = {}
    /\ pstatus = [p \in ProjIds |-> "draft"]
    /\ pprog = [p \in ProjIds |-> 0]
    /\ tasks = [t \in TaskIds |-> NoTask]
    /\ nextTask = 1
    /\ nextProject = 1
    /\ currentProjectId = 0
    /\ currentTaskId = 0
    /\ modal = {}
    /\ formTask = 0
    /\ formProject = 0
    /\ pendTask = {}
    /\ pendProject = {}
    /\ rendered = [msg |-> "", cards |-> {}]
    /\ alert = ""
    /\ proc = [i \in ProcIds |-> IdleProc]
    /\ nmut = 0
    /\ clicks = 0
    /\ failures = 0
    /\ agg \in {[AggOff EXCEPT !.pc = "fetched", !.tasks = ts] : ts \in TaskLists}

client == <<current, modal, forms, rendered, alert, proc, nmut, clicks, failures>>

\* calculateProjectProgress: the value of the progress bar
AggCalculateProjectProgress ==
    /\ agg.pc = "fetched"
    /\ agg' = [agg EXCEPT !.pc = "shown", !.shown = calculateProjectProgress(agg.tasks)]
    /\ UNCHANGED <<backend, client>>

\* the refresh: nothing is PUT for an empty list (-1), else the progress
AggRefresh ==
    /\ agg.pc = "shown"
    /\ agg' = [agg EXCEPT !.pc = "put",
                          !.put = IF Len(agg.tasks) = 0 THEN -1
                                  ELSE completionProgress(agg.tasks)]
    /\ UNCHANGED <<backend, client>>

\* updateProjectStatus: the status it PUTs
AggUpdateProjectStatus ==
    /\ agg.pc = "put"
    /\ agg' = [agg EXCEPT !.pc = "done", !.status = computeStatus(agg.tasks)]
    /\ UNCHANGED <<backend, client>>

NextAgg ==
    \/ AggCalculateProjectProgress
    \/ AggRefresh
    \/ AggUpdateProjectStatus

SpecAgg == InitAgg /\ [][NextAgg]_vars

\* ---- the claims

RefreshPcs == {"r_get", "r_putProgress", "r_statusGet", "r_statusPut"}
TaskMutations == {"createTask", "editTask", "deleteTask"}
Quiescent ==
    /\ \A i \in ProcIds : proc[i].pc \in {"idle", "done"}
    /\ pendTask = {}
    /\ pendProject = {}

\* C1: in the request log of one invocation of the refresh, the status PUT is
\* issued only after the progress PUT of that invocation was issued and its
\* response received
C1_ProgressPutAwaitedBeforeStatusPut ==
    \A i \in ProcIds :
      LET L == proc[i].log IN
      proc[i].pc \in RefreshPcs =>
        \A j \in 1..Len(L) :
          L[j] = <<"status", "issue">> =>
            \E a, b \in 1..Len(L) :
              /\ a < b
              /\ b < j
              /\ L[a] = <<"progress", "issue">>
              /\ L[b] = <<"progress", "resp">>

C1_Witness ==
    \E i \in ProcIds :
      /\ proc[i].pc = "r_statusPut"
      /\ proc[i].ntasks > 0
      /\ proc[i].log = << <<"progress", "issue">>, <<"progress", "resp">>,
                          <<"status", "issue">> >>

\* C2: for a non-empty task list the status updateProjectStatus PUTs is "done"
\* iff every task is done, "in progress" iff not all are done and one is in
\* progress, and "draft" in every other case
C2_StatusIsRollup ==
    LET ts == agg.tasks
        allDone == \A i \in 1..Len(ts) : ts[i].status = "done"
        anyInProgress == \E i \in 1..Len(ts) : ts[i].status = "in progress"
    IN (agg.pc = "done" /\ Len(ts) > 0) =>
         /\ agg.status = "done" <=> allDone
         /\ agg.status = "in progress" <=> (~allDone /\ anyInProgress)
         /\ agg.status = "draft" <=> (~allDone /\ ~anyInProgress)

C2_Witness ==
    /\ agg.pc = "done"
    /\ Len(agg.tasks) = 2
    /\ agg.tasks[1].status = "done"
    /\ agg.tasks[2].status = "draft"
    /\ agg.status = "draft"

\* C3: no progress PUT and no status PUT is issued for a project (one the
\* backend holds) whose fetched task list is empty
C3_NoPutForEmptyTaskList ==
    \A i \in ProcIds :
      (proc[i].pc \in {"r_putProgress", "r_statusPut", "h_statusPut"}
         /\ proc[i].pid \in projects)
      => proc[i].ntasks > 0

RECURSIVE WeightUpTo(_, _, _)
WeightUpTo(ts, n, statuses) ==
    IF n = 0 THEN 0
    ELSE WeightUpTo(ts, n - 1, statuses)
         + (IF ts[n].status \in statuses THEN ts[n].weight ELSE 0)

\* v hundredths is c / t * 100 rounded to two decimals
RoundedPercentage(v, c, t) ==
    /\ v \in 0..10000
    /\ 2 * (v * t - 10000 * c) <= t
    /\ 2 * (10000 * c - v * t) < t

\* C4: for a non-empty task list the progress displayed and the progress PUT
\* are in [0, 100] and are done weight / total weight x 100 rounded to two
\* decimals; for an empty task list the progress is 0
C4_ProgressIsWeightedPercentage ==
    LET ts == agg.tasks
        c == WeightUpTo(ts, Len(ts), {"done"})
        t == WeightUpTo(ts, Len(ts), Status)
    IN /\ agg.pc \in {"shown", "put", "done"} =>
            IF Len(ts) = 0 THEN agg.shown = 0 ELSE RoundedPercentage(agg.shown, c, t)
       /\ (agg.pc \in {"put", "done"} /\ Len(ts) > 0) => RoundedPercentage(agg.put, c, t)

C4_Witness ==
    /\ agg.pc = "done"
    /\ Len(agg.tasks) = 3
    /\ agg.put = 6667
    /\ agg.shown = 6667

C6_RenderedStatusIsBackendStatus ==
    (/\ Quiescent
     /\ failures = 0
     /\ nmut >= 1
     /\ \A k \in 1..nmut : /\ proc[Handler(k)].res = "ok"
                           /\ proc[Handler(k)].op.type \in {"createTask", "editTask"})
    => \A c \in rendered.cards : c.id \in projects /\ c.status = pstatus[c.id]

\* C7: once every request triggered by successful task creations and edits has
\* completed and none has failed, every project with a task holds the rollup
\* of its tasks' statuses and their weighted percentage
C7_BackendDerivedStateInSync ==
    (/\ Quiescent
     /\ failures = 0
     /\ nmut >= 1
     /\ \A k \in 1..nmut : /\ proc[Handler(k)].res = "ok"
                           /\ proc[Handler(k)].op.type \in {"createTask", "editTask"})
    => \A p \in projects :
         TasksOf(p) # <<>> =>
            /\ pstatus[p] = computeStatus(TasksOf(p))
            /\ pprog[p] = completionProgress(TasksOf(p))

ErrorAlerts ==
    {"Error adding task.", "Error editing task.", "Error deleting task.",
     "Error creating project.", "Error editing project.", "Error deleting project."}

\* C8: a handler whose REST call fails shows an alert and finishes: it starts
\* no reload and no refresh (so issues no progress or status PUT), leaves its
\* modal open and the rendered list as it is, then and afterwards
C8_FailureLeavesStateUnchanged ==
    [][\A k \in Mutations :
         /\ (proc[Handler(k)].pc = "mutate" /\ proc'[Handler(k)].res = "fail") =>
               /\ alert' \in ErrorAlerts
               /\ modal' = modal
               /\ rendered' = rendered
               /\ proc'[Handler(k)].pc = "done"
               /\ proc'[Load(k)].pc = "idle"
         /\ proc[Handler(k)].res = "fail" =>
               /\ proc'[Handler(k)] = proc[Handler(k)]
               /\ proc'[Load(k)].pc = "idle"]_vars

C8_Witness ==
    \E k \in Mutations :
      /\ proc[Handler(k)].res = "fail"
      /\ proc[Handler(k)].op.type = "createTask"
      /\ "addTask" \in modal
      /\ alert = "Error adding task."

\* C9: no POST or PUT of a project or a task is sent with an empty name
C9_NoRequestWithEmptyName ==
    \A k \in Mutations :
      (/\ proc[Handler(k)].pc = "mutate"
       /\ proc[Handler(k)].op.type \in {"createProject", "editProject", "createTask", "editTask"})
      => proc[Handler(k)].op.name # ""

\* C10: the id in the URL of an edit PUT is the id of the task (project) whose
\* fetched data fills the form that is submitted
C10_EditTargetsTheTaskInTheForm ==
    \A k \in Mutations :
      proc[Handler(k)].op.type \in {"editTask", "editProject"}
        => proc[Handler(k)].op.id = proc[Handler(k)].op.src

====
